---------------------------- MODULE Spec2Model ----------------------------
(***************************************************************************)
(* One invocation of k8s-cli.py: the command line is parsed, main          *)
(* dispatches to a handler, the handler loads the configuration, talks to  *)
(* the remote API (or starts kubectl) and the process exits.               *)
(*                                                                         *)
(* Strings the code inspects character by character (the --replicas        *)
(* argument, label keys) are sequences; an optional value (Python None) is *)
(* the empty set and a present value x is {x}.                             *)
(***************************************************************************)
EXTENDS Integers, Sequences, FiniteSets, TLC

VARIABLES
    argv,        \* the command line of this invocation
    hasK8s,      \* HAS_K8S: the kubernetes package was imported
    pc,          \* where the process is
    args,        \* the argparse namespace
    handler,     \* the cmd_* function main called ("None" before)
    invoked,     \* every handler main called, in order
    configState, \* "unloaded", "loaded", "failed"
    calls,       \* the remote API calls issued, in order
    deployment,  \* the deployment args.name as the remote API stores it
    dep,         \* the handler's local dep object
    listed,      \* what config.list_kube_config_contexts() returned
    spawned,     \* the argument vectors given to subprocess.run
    stdout,
    stderr,
    exitCode     \* None while running

vars == <<argv, hasK8s, pc, args, handler, invoked, configState, calls,
          deployment, dep, listed, spawned, stdout, stderr, exitCode>>

-----------------------------------------------------------------------------
(* Bounds *)

MaxArgLen == 2       \* characters of the --replicas argument
MaxReplicas == 2     \* replicas of the stored deployment
MaxPods == 1         \* pods a list call returns
MaxContainers == 2   \* containers a pod declares
MaxRestarts == 1     \* restart count of one container
MaxNodes == 1        \* nodes a list call returns
MaxConditions == 2   \* conditions a node reports
MaxLabels == 2       \* labels of a node
MaxContexts == 2     \* contexts of the kubeconfig
MaxExternalWrites == 1 \* writes of another client between the read and the patch

-----------------------------------------------------------------------------
(* Python values *)

None == {}
Some(x) == {x}
Get(o) == CHOOSE x \in o : TRUE

SeqsUpTo(S, n) == UNION {[1..k -> S] : k \in 0..n}

Last(s) == s[Len(s)]

RECURSIVE SumSeq(_)
SumSeq(s) == IF s = <<>> THEN 0 ELSE s[1] + SumSeq(Tail(s))

RECURSIVE Concat(_)
\* "".join(parts)
Concat(parts) == IF parts = <<>> THEN "" ELSE parts[1] \o Concat(Tail(parts))

RECURSIVE Join(_, _)
\* sep.join(parts)
Join(sep, parts) ==
    IF parts = <<>> THEN ""
    ELSE IF Len(parts) = 1 THEN parts[1]
    ELSE parts[1] \o sep \o Join(sep, Tail(parts))

-----------------------------------------------------------------------------
(* Output: ok/err/info/header print one line, print_table prints the rows  *)

Line(kind, text) == [kind |-> kind, text |-> text]

\* a table cell before rendering: an int or a str
I(n) == [t |-> "int", v |-> n]
S(s) == [t |-> "str", v |-> s]

\* str(r[i]) of print_table
Str(cell) == IF cell.t = "int" THEN ToString(cell.v) ELSE cell.v

print_table(headers, rows) ==
    [kind |-> "table", headers |-> headers,
     rows |-> [i \in 1..Len(rows) |->
                  [j \in 1..Len(rows[i]) |-> Str(rows[i][j])]]]

HelpText == Line("help", "usage: k8s-cli")

-----------------------------------------------------------------------------
(* The command line *)

NoToken == "None"

Commands == {"get", "describe", "logs", "delete-pod", "scale", "rollout",
             "cluster-info", "use-context", "exec", "port-forward", "apply",
             "delete"}

GetResources == {"namespaces", "pods", "deployments", "services",
                 "configmaps", "nodes", "contexts"}

\* the sub-command choices of each command that has a sub-parser
SubChoices(c) ==
    CASE c = "get" -> GetResources
      [] c = "describe" -> {"pod"}
      [] c = "scale" -> {"deployment"}
      [] c = "rollout" -> {"restart"}
      [] OTHER -> {}

ArgChars == {"-", "+", "0", "1", "x"}
Digits == {"0", "1"}

ReplicaArgs == SeqsUpTo(ArgChars, MaxArgLen)

GlobalFlags == {[context |-> NoToken, in_cluster |-> FALSE],
                [context |-> "prod", in_cluster |-> FALSE],
                [context |-> NoToken, in_cluster |-> TRUE]}

CommandLine(c, s, r, g) ==
    [command |-> c, sub |-> s, replicas |-> r,
     context |-> g.context, in_cluster |-> g.in_cluster]

CommandLines ==
    {CommandLine(c, s, None, g) :
        c \in {NoToken, "bogus"} \cup (Commands \ {"get", "describe", "scale", "rollout"}),
        s \in {NoToken}, g \in GlobalFlags}
    \cup UNION {{CommandLine(c, s, None, g) :
                    s \in SubChoices(c) \cup {NoToken, "bogus"}, g \in GlobalFlags} :
                c \in {"get", "describe", "rollout"}}
    \cup {CommandLine("scale", s, None, g) :
             s \in {NoToken, "bogus", "deployment"}, g \in GlobalFlags}
    \cup {CommandLine("scale", "deployment", Some(r), g) :
             r \in ReplicaArgs, g \in {x \in GlobalFlags : x.context = NoToken}}

-----------------------------------------------------------------------------
(* argparse: --replicas with type=int, required=True *)

DigitVal(c) == IF c = "1" THEN 1 ELSE 0

RECURSIVE Decimal(_)
Decimal(ds) ==
    IF ds = <<>> THEN 0
    ELSE 10 * Decimal(SubSeq(ds, 1, Len(ds) - 1)) + DigitVal(Last(ds))

AllDigits(s) == Len(s) >= 1 /\ \A i \in 1..Len(s) : s[i] \in Digits

\* int(s) succeeds: an optional sign and at least one digit
IntParses(s) ==
    /\ Len(s) >= 1
    /\ IF s[1] \in {"-", "+"} THEN AllDigits(Tail(s)) ELSE AllDigits(s)

\* int(s)
IntValue(s) ==
    IF s[1] = "-" THEN 0 - Decimal(Tail(s))
    ELSE IF s[1] = "+" THEN Decimal(Tail(s))
    ELSE Decimal(s)

\* argparse takes a token that starts with "-" for an option, unless it is
\* "-" alone or looks like a negative number
LooksLikeOption(s) ==
    /\ Len(s) >= 2
    /\ s[1] = "-"
    /\ ~AllDigits(Tail(s))

\* the value argparse stores for --replicas, None when it rejects the line
ParseReplicas(r) ==
    IF r = None THEN None
    ELSE IF LooksLikeOption(Get(r)) THEN None
    ELSE IF ~IntParses(Get(r)) THEN None
    ELSE Some(IntValue(Get(r)))

\* parse_args accepts the command line
ParserAccepts(a) ==
    /\ a.command \in Commands \cup {NoToken}
    /\ a.sub \in SubChoices(a.command) \cup {NoToken}
    /\ (a.command = "scale" /\ a.sub = "deployment") => ParseReplicas(a.replicas) # None

Namespace(a) ==
    [command |-> a.command,
     resource |-> IF a.command \in {"get", "describe", "scale"} THEN a.sub ELSE NoToken,
     action |-> IF a.command = "rollout" THEN a.sub ELSE NoToken,
     replicas |-> IF a.command = "scale" /\ a.sub = "deployment"
                  THEN ParseReplicas(a.replicas) ELSE None,
     name |-> "web",
     namespace |-> NoToken,
     context |-> a.context,
     in_cluster |-> a.in_cluster]

NoArgs == Namespace(CommandLine(NoToken, NoToken, None,
                                [context |-> NoToken, in_cluster |-> FALSE]))

-----------------------------------------------------------------------------
(* The remote API's objects *)

RestartedAt == "kubectl.kubernetes.io/restartedAt"

AnnotationKeys == {RestartedAt, "owner"}

\* annotation values are strings, kept as their parts
OldValue(k) == IF k = RestartedAt
               THEN <<"2026-01-01", "T", "00:00:00", "Z">>
               ELSE <<"team-a">>

\* the pod-template annotations: absent, or a dict
AnnotationMaps == {None} \cup {Some([k \in D |-> OldValue(k)]) : D \in SUBSET AnnotationKeys}

\* a deployment as read_namespaced_deployment returns it: its metadata carry
\* the resourceVersion the remote API stored it under
Deployments == [replicas : 0..MaxReplicas, annotations : AnnotationMaps,
                image : {"nginx:1"}, resourceVersion : {1}]

DefaultDeployment == [replicas |-> 1, annotations |-> None, image |-> "nginx:1",
                      resourceVersion |-> 1]

\* the reasons of the ApiException a remote call can raise
ApiReasons == {"Not Found", "Forbidden"}

\* one remote API call: its operation, "ok" or the reason it failed with,
\* the body sent (patch) and the object returned
Call(op, outcome, body, returned) ==
    [op |-> op, outcome |-> outcome, body |-> body, returned |-> returned]

-----------------------------------------------------------------------------
(* Init: the process starts on a command line *)

Init ==
    /\ argv \in CommandLines
    /\ hasK8s \in BOOLEAN
    /\ pc = "parse"
    /\ args = NoArgs
    /\ handler = "None"
    /\ invoked = <<>>
    /\ configState = "unloaded"
    /\ calls = <<>>
    \* only scale and rollout touch the deployment: the other commands run
    \* against one fixed deployment
    /\ deployment \in IF argv.command \in {"scale", "rollout"} /\ argv.sub # NoToken
                      THEN {None} \cup {Some(d) : d \in Deployments}
                      ELSE {Some(DefaultDeployment)}
    /\ dep = None
    /\ listed = None
    /\ spawned = <<>>
    /\ stdout = <<>>
    /\ stderr = <<>>
    /\ exitCode = None

\* the process ends with this exit code
Exit(code) == pc' = "done" /\ exitCode' = Some(code)

\* a handler returns to main, main returns, the interpreter exits 0
Return == Exit(0)

-----------------------------------------------------------------------------
(* parser.parse_args(): a rejected command line is a usage error, exit 2 *)

ParseArgs ==
    /\ pc = "parse"
    /\ IF ParserAccepts(argv)
       THEN /\ args' = Namespace(argv)
            /\ pc' = "main"
            /\ UNCHANGED <<stderr, exitCode>>
       ELSE /\ stderr' = Append(stderr, Line("usage", "k8s-cli: error"))
            /\ Exit(2)
            /\ UNCHANGED args
    /\ UNCHANGED <<argv, hasK8s, handler, invoked, configState, calls,
                   deployment, dep, listed, spawned, stdout>>

-----------------------------------------------------------------------------
(* main: the dispatch table *)

\* the handler main calls for the namespace, "None" when it calls none
Target(a) ==
    CASE a.command = "get" ->
            (CASE a.resource = "namespaces" -> "cmd_get_namespaces"
               [] a.resource = "pods" -> "cmd_get_pods"
               [] a.resource = "deployments" -> "cmd_get_deployments"
               [] a.resource = "services" -> "cmd_get_services"
               [] a.resource = "configmaps" -> "cmd_get_configmaps"
               [] a.resource = "nodes" -> "cmd_get_nodes"
               [] a.resource = "contexts" -> "cmd_get_contexts"
               [] OTHER -> "None")
      [] a.command = "describe" ->
            IF a.resource = "pod" THEN "cmd_describe_pod" ELSE "None"
      [] a.command = "logs" -> "cmd_pod_logs"
      [] a.command = "delete-pod" -> "cmd_delete_pod"
      [] a.command = "scale" ->
            IF a.resource = "deployment" THEN "cmd_scale_deployment" ELSE "None"
      [] a.command = "rollout" ->
            IF a.action = "restart" THEN "cmd_rollout_restart" ELSE "None"
      [] a.command = "cluster-info" -> "cmd_cluster_info"
      [] a.command = "use-context" -> "cmd_use_context"
      [] a.command = "exec" -> "cmd_exec"
      [] a.command = "port-forward" -> "cmd_port_forward"
      [] a.command = "apply" -> "cmd_apply"
      [] a.command = "delete" -> "cmd_delete_resource"
      [] OTHER -> "None"

ExternalHandlers == {"cmd_exec", "cmd_port_forward", "cmd_apply", "cmd_delete_resource"}
ContextHandlers == {"cmd_get_contexts", "cmd_use_context"}

\* where a handler starts: the resource handlers start with load_kube_config
Entry(h) ==
    IF h \in ExternalHandlers THEN "run"
    ELSE IF h \in ContextHandlers THEN "config"
    ELSE "load"

\* what main prints to standard error when it calls no handler
UnknownErr(a) ==
    CASE a.command \in {"get", "describe", "scale"} ->
            <<Line("err", "Unknown resource '" \o a.resource \o "'")>>
      [] a.command = "rollout" -> <<>>
      [] OTHER -> <<Line("err", "Unknown command '" \o a.command \o "'")>>

\* ... and to standard output: parser.print_help()
UnknownHelp(a) ==
    CASE a.command = "get" -> <<HelpText>>
      [] a.command \in {"describe", "scale", "rollout"} -> <<>>
      [] OTHER -> <<HelpText>>

Main ==
    /\ pc = "main"
    /\ IF args.command = NoToken
       THEN /\ stdout' = Append(stdout, HelpText)
            /\ Return
            /\ UNCHANGED <<handler, invoked, stderr>>
       ELSE IF Target(args) # "None"
       THEN /\ handler' = Target(args)
            /\ invoked' = Append(invoked, Target(args))
            /\ pc' = Entry(Target(args))
            /\ UNCHANGED <<stdout, stderr, exitCode>>
       ELSE /\ stderr' = stderr \o UnknownErr(args)
            /\ stdout' = stdout \o UnknownHelp(args)
            /\ Return
            /\ UNCHANGED <<handler, invoked>>
    /\ UNCHANGED <<argv, hasK8s, args, configState, calls, deployment, dep,
                   listed, spawned>>

-----------------------------------------------------------------------------
(* load_kube_config: the first statement of every resource handler *)

LoadedMessage(a) ==
    IF a.in_cluster THEN "Loaded in-cluster config"
    ELSE "Loaded kubeconfig (context: "
         \o (IF a.context = NoToken THEN "default" ELSE a.context) \o ")"

LoadKubeConfig ==
    /\ pc = "load"
    /\ IF ~hasK8s
       THEN /\ stderr' = Append(stderr, Line("err", "kubernetes package not installed. Run: pip install kubernetes"))
            /\ Exit(1)
            /\ UNCHANGED <<configState, stdout>>
       ELSE \E loads \in BOOLEAN :
              IF loads
              THEN /\ configState' = "loaded"
                   /\ stdout' = Append(stdout, Line("ok", LoadedMessage(args)))
                   /\ pc' = "call"
                   /\ UNCHANGED <<stderr, exitCode>>
              ELSE /\ configState' = "failed"
                   /\ stderr' = Append(stderr, Line("err", "Failed to load config"))
                   /\ Exit(1)
                   /\ UNCHANGED stdout
    /\ UNCHANGED <<argv, hasK8s, args, handler, invoked, calls, deployment, dep,
                   listed, spawned>>

-----------------------------------------------------------------------------
(* What every handler shares *)

\* args.namespace or "default"
Ns(a) == IF a.namespace = NoToken THEN "default" ELSE a.namespace

\* the variables no handler step changes
fixed == <<argv, hasK8s, args, handler, invoked, listed>>

\* the exception reported and raised again: the process ends with exit code 1
ApiExceptionRaised(op, body, reason) ==
    /\ calls' = Append(calls, Call(op, reason, body, None))
    /\ stderr' = Append(stderr, Line("err", "API error: " \o reason))
    /\ Exit(1)

\* except ApiException as e: err(f"API error: {e.reason}"), and the handler
\* returns
ApiException(op, body, reason) ==
    /\ calls' = Append(calls, Call(op, reason, body, None))
    /\ stderr' = Append(stderr, Line("err", "API error: " \o reason))
    /\ Return

\* an exception no except clause catches: traceback, exit 1
Uncaught(text) ==
    /\ stderr' = Append(stderr, Line("traceback", text))
    /\ Exit(1)

\* a list call returned items and the handler printed its table
Listed(op, items, title, headers, rows) ==
    /\ calls' = Append(calls, Call(op, "ok", None, Some(items)))
    /\ stdout' = stdout \o <<Line("header", title), print_table(headers, rows)>>
    /\ Return
    /\ UNCHANGED stderr

-----------------------------------------------------------------------------
(* get namespaces *)

NamespaceLists == {<<>>, <<[name |-> "default", phase |-> "Active"]>>}

NamespaceRow(ns) == <<S(ns.name), S(ns.phase)>>

CmdGetNamespaces ==
    /\ pc = "call" /\ handler = "cmd_get_namespaces"
    /\ \/ \E r \in ApiReasons :
            ApiException("list_namespace", None, r) /\ UNCHANGED stdout
       \/ \E nss \in NamespaceLists :
            Listed("list_namespace", nss, "Namespaces", <<"NAME", "STATUS">>,
                   [i \in 1..Len(nss) |-> NamespaceRow(nss[i])])
    /\ UNCHANGED <<fixed, configState, deployment, dep, spawned>>

-----------------------------------------------------------------------------
(* get pods *)

ContainerStatuses == [ready : BOOLEAN, restart_count : 0..MaxRestarts]

\* a pod declares at least one container and reports at most one status for
\* each; the status list may be absent, and so may the phase (of a pod that
\* reports nothing yet)
Pods ==
    UNION {[name : {"web-1"},
            containers : {[i \in 1..n |-> "c"]},
            container_statuses : {None} \cup {Some(ss) : ss \in SeqsUpTo(ContainerStatuses, n)},
            phase : {Some("Running")}] : n \in 1..MaxContainers}
    \cup {[name |-> "web-1", containers |-> <<"c">>, container_statuses |-> None,
           phase |-> None]}

PodLists == SeqsUpTo(Pods, MaxPods)

\* p.status.container_statuses or []
StatusesOrEmpty(p) ==
    IF p.container_statuses = None THEN <<>> ELSE Get(p.container_statuses)

\* every status counted, ready or not
ReadyCountAll(p) == Len(StatusesOrEmpty(p))

\* sum(1 for cs in (p.status.container_statuses or []) if cs.ready)
ReadyCount(p) ==
    SumSeq([i \in 1..Len(StatusesOrEmpty(p)) |->
               IF StatusesOrEmpty(p)[i].ready THEN 1 ELSE 0])

\* sum(cs.restart_count for cs in (p.status.container_statuses or []))
RestartCount(p) ==
    SumSeq([i \in 1..Len(StatusesOrEmpty(p)) |-> StatusesOrEmpty(p)[i].restart_count])

\* f"{ready}/{total}"
ReadyText(ready, total) == ToString(ready) \o "/" \o ToString(total)

PodRow(p, ns) ==
    <<S(p.name),
      S(ReadyText(ReadyCount(p), Len(p.containers))),
      S(IF p.phase = None THEN "Unknown" ELSE Get(p.phase)),
      I(RestartCount(p)),
      S(ns)>>

CmdGetPods ==
    /\ pc = "call" /\ handler = "cmd_get_pods"
    /\ \/ \E r \in ApiReasons :
            ApiException("list_namespaced_pod", None, r) /\ UNCHANGED stdout
       \/ \E pods \in PodLists :
            Listed("list_namespaced_pod", pods, "Pods in namespace: " \o Ns(args),
                   <<"NAME", "READY", "STATUS", "RESTARTS", "NAMESPACE">>,
                   [i \in 1..Len(pods) |-> PodRow(pods[i], Ns(args))])
    /\ UNCHANGED <<fixed, configState, deployment, dep, spawned>>

-----------------------------------------------------------------------------
(* describe pod, logs, delete-pod *)

CmdDescribePod ==
    /\ pc = "call" /\ handler = "cmd_describe_pod"
    /\ \/ \E r \in ApiReasons :
            ApiException("read_namespaced_pod", None, r) /\ UNCHANGED stdout
       \/ \E pod \in Pods :
            /\ calls' = Append(calls, Call("read_namespaced_pod", "ok", None, Some(pod)))
            /\ stdout' = stdout \o <<Line("header", "Pod: " \o pod.name),
                                     Line("print", "  Namespace : " \o Ns(args))>>
            /\ Return
            /\ UNCHANGED stderr
    /\ UNCHANGED <<fixed, configState, deployment, dep, spawned>>

CmdPodLogs ==
    /\ pc = "call" /\ handler = "cmd_pod_logs"
    /\ \/ \E r \in ApiReasons :
            ApiException("read_namespaced_pod_log", None, r) /\ UNCHANGED stdout
       \/ \E logs \in {"", "started"} :
            /\ calls' = Append(calls, Call("read_namespaced_pod_log", "ok", None, Some(logs)))
            /\ stdout' = Append(stdout, Line("print", logs))
            /\ Return
            /\ UNCHANGED stderr
    /\ UNCHANGED <<fixed, configState, deployment, dep, spawned>>

CmdDeletePod ==
    /\ pc = "call" /\ handler = "cmd_delete_pod"
    /\ \/ \E r \in ApiReasons :
            ApiException("delete_namespaced_pod", None, r) /\ UNCHANGED stdout
       \/ /\ calls' = Append(calls, Call("delete_namespaced_pod", "ok", None, None))
          /\ stdout' = Append(stdout, Line("ok", "Pod '" \o args.name
                                 \o "' deleted from namespace '" \o Ns(args) \o "'"))
          /\ Return
          /\ UNCHANGED stderr
    /\ UNCHANGED <<fixed, configState, deployment, dep, spawned>>

-----------------------------------------------------------------------------
(* get deployments *)

\* d.status.x or 0: a count the status does not report is None
DeploymentStatuses ==
    {[ready_replicas |-> None, replicas |-> Some(1),
      updated_replicas |-> None, available_replicas |-> None],
     [ready_replicas |-> Some(1), replicas |-> Some(1),
      updated_replicas |-> Some(1), available_replicas |-> Some(1)]}

OrZero(o) == IF o = None THEN 0 ELSE Get(o)

DeploymentRow(name, st) ==
    <<S(name), I(OrZero(st.ready_replicas)), I(OrZero(st.replicas)),
      I(OrZero(st.updated_replicas)), I(OrZero(st.available_replicas))>>

CmdGetDeployments ==
    /\ pc = "call" /\ handler = "cmd_get_deployments"
    /\ \/ \E r \in ApiReasons :
            ApiException("list_namespaced_deployment", None, r) /\ UNCHANGED stdout
       \/ \E deps \in SeqsUpTo(DeploymentStatuses, 1) :
            Listed("list_namespaced_deployment", deps,
                   "Deployments in namespace: " \o Ns(args),
                   <<"NAME", "READY", "DESIRED", "UPDATED", "AVAILABLE">>,
                   [i \in 1..Len(deps) |-> DeploymentRow(args.name, deps[i])])
    /\ UNCHANGED <<fixed, configState, deployment, dep, spawned>>

-----------------------------------------------------------------------------
(* scale deployment NAME --replicas R: read, set spec.replicas, patch *)

\* the patch accepted whatever resourceVersion its body carries
PatchOutcomesUnconditional(stored, body) ==
    IF body.replicas < 0 THEN {"Unprocessable Entity"}
    ELSE ApiReasons \cup {"ok"}

\* patch_namespaced_deployment(name, namespace, body=dep): the body is the
\* whole object read, metadata.resourceVersion included, and the remote API
\* refuses a body whose resourceVersion is not the stored one (409 Conflict);
\* it refuses a deployment with a negative replica count
PatchOutcomes(stored, body) ==
    IF body.resourceVersion # stored.resourceVersion
    THEN ApiReasons \cup {"Conflict"}
    ELSE IF body.replicas < 0 THEN {"Unprocessable Entity"}
    ELSE ApiReasons \cup {"ok"}

\* an accepted patch is stored under a new resourceVersion
Stored(body) == [body EXCEPT !.resourceVersion = @ + 1]

\* apps.read_namespaced_deployment: the stored deployment, or Not Found
ReadOutcomes == IF deployment = None THEN {"Not Found"} ELSE {"Forbidden", "ok"}

\* dep.spec.replicas = args.replicas
ScaleBody(d, replicas) == [d EXCEPT !.replicas = replicas]

CmdScaleDeploymentRead ==
    /\ pc = "call" /\ handler = "cmd_scale_deployment"
    /\ \E o \in ReadOutcomes :
         IF o # "ok"
         THEN ApiException("read_namespaced_deployment", None, o) /\ UNCHANGED dep
         ELSE /\ calls' = Append(calls, Call("read_namespaced_deployment", "ok",
                                              None, deployment))
              /\ dep' = Some(ScaleBody(Get(deployment), Get(args.replicas)))
              /\ pc' = "patch"
              /\ UNCHANGED <<stderr, exitCode>>
    /\ UNCHANGED <<fixed, configState, deployment, spawned, stdout>>

CmdScaleDeploymentPatch ==
    /\ pc = "patch" /\ handler = "cmd_scale_deployment"
    /\ \E o \in PatchOutcomes(Get(deployment), Get(dep)) :
         IF o # "ok"
         THEN ApiException("patch_namespaced_deployment", dep, o)
              /\ UNCHANGED <<deployment, stdout>>
         ELSE /\ calls' = Append(calls, Call("patch_namespaced_deployment", "ok",
                                              dep, None))
              /\ deployment' = Some(Stored(Get(dep)))
              /\ stdout' = Append(stdout, Line("ok", "Deployment '" \o args.name
                              \o "' scaled to " \o ToString(Get(args.replicas))
                              \o " replicas"))
              /\ Return
              /\ UNCHANGED stderr
    /\ UNCHANGED <<fixed, configState, dep, spawned>>

-----------------------------------------------------------------------------
(* rollout restart NAME: read, set the restartedAt annotation, patch *)

\* datetime.datetime.utcnow()
Datetimes == [date : {"2026-11-03"}, time : {"06:09:05"},
              microsecond : {"", "000123"}]

\* datetime.isoformat(): the microseconds are left out when they are 0
IsoFormat(dt) ==
    <<dt.date, "T", dt.time>>
    \o (IF dt.microsecond = "" THEN <<>> ELSE <<".", dt.microsecond>>)

\* annotations[key] = value
SetItem(d, key, value) ==
    [k \in DOMAIN d \cup {key} |-> IF k = key THEN value ELSE d[k]]

EmptyDict == [k \in {} |-> <<>>]

\* the annotations replaced by a dict of the one key
RestartBodyFresh(d, now) ==
    [d EXCEPT !.annotations =
        Some(SetItem(EmptyDict, RestartedAt, IsoFormat(now) \o <<"Z">>))]

\* if not annotations: annotations = {}
\* annotations["kubectl.kubernetes.io/restartedAt"] = utcnow().isoformat() + "Z"
RestartBody(d, now) ==
    [d EXCEPT !.annotations =
        Some(SetItem(IF d.annotations = None THEN EmptyDict
                     ELSE IF DOMAIN Get(d.annotations) = {} THEN EmptyDict
                     ELSE Get(d.annotations),
                     RestartedAt, IsoFormat(now) \o <<"Z">>))]

CmdRolloutRestartRead ==
    /\ pc = "call" /\ handler = "cmd_rollout_restart"
    /\ \E o \in ReadOutcomes :
         IF o # "ok"
         THEN ApiException("read_namespaced_deployment", None, o) /\ UNCHANGED dep
         ELSE \E now \in Datetimes :
              /\ calls' = Append(calls, Call("read_namespaced_deployment", "ok",
                                              None, deployment))
              /\ dep' = Some(RestartBody(Get(deployment), now))
              /\ pc' = "patch"
              /\ UNCHANGED <<stderr, exitCode>>
    /\ UNCHANGED <<fixed, configState, deployment, spawned, stdout>>

CmdRolloutRestartPatch ==
    /\ pc = "patch" /\ handler = "cmd_rollout_restart"
    /\ \E o \in PatchOutcomes(Get(deployment), Get(dep)) :
         IF o # "ok"
         THEN ApiException("patch_namespaced_deployment", dep, o)
              /\ UNCHANGED <<deployment, stdout>>
         ELSE /\ calls' = Append(calls, Call("patch_namespaced_deployment", "ok",
                                              dep, None))
              /\ deployment' = Some(Stored(Get(dep)))
              /\ stdout' = Append(stdout, Line("ok",
                              "Rollout restart triggered for deployment '"
                              \o args.name \o "'"))
              /\ Return
              /\ UNCHANGED stderr
    /\ UNCHANGED <<fixed, configState, dep, spawned>>

-----------------------------------------------------------------------------
(* Another client of the remote API writes the deployment while scale or    *)
(* rollout restart is between its read and its patch                        *)

\* what another writer can make of the stored deployment d: other replicas or
\* other annotations, stored under a new resourceVersion
ExternalModifications(d) ==
    {[e EXCEPT !.resourceVersion = d.resourceVersion + 1] :
        e \in {x \in [replicas : 0..MaxReplicas, annotations : AnnotationMaps,
                      image : {d.image}, resourceVersion : {d.resourceVersion}] :
                 x # d}}

ExternalWrite ==
    /\ pc = "patch"
    /\ Get(deployment).resourceVersion - Get(dep).resourceVersion < MaxExternalWrites
    /\ \E d \in ExternalModifications(Get(deployment)) : deployment' = Some(d)
    /\ UNCHANGED <<fixed, pc, configState, calls, dep, spawned, stdout, stderr,
                   exitCode>>

-----------------------------------------------------------------------------
(* get services, get configmaps *)

ServicePorts == {[port |-> 80, node_port |-> None, protocol |-> "TCP"],
                 [port |-> 443, node_port |-> Some(30443), protocol |-> "TCP"]}

Services == [name : {"web"}, ports : {None} \cup {Some(ps) : ps \in SeqsUpTo(ServicePorts, 1)}]

\* f"{p.port}:{p.node_port or '-'}/{p.protocol}"
PortText(p) ==
    ToString(p.port) \o ":"
    \o (IF p.node_port = None THEN "-" ELSE ToString(Get(p.node_port)))
    \o "/" \o p.protocol

ServiceRow(svc) ==
    <<S(svc.name),
      S(Join(", ", IF svc.ports = None THEN <<>>
                   ELSE [i \in 1..Len(Get(svc.ports)) |-> PortText(Get(svc.ports)[i])]))>>

CmdGetServices ==
    /\ pc = "call" /\ handler = "cmd_get_services"
    /\ \/ \E r \in ApiReasons :
            ApiException("list_namespaced_service", None, r) /\ UNCHANGED stdout
       \/ \E svcs \in SeqsUpTo(Services, 1) :
            Listed("list_namespaced_service", svcs,
                   "Services in namespace: " \o Ns(args), <<"NAME", "PORTS">>,
                   [i \in 1..Len(svcs) |-> ServiceRow(svcs[i])])
    /\ UNCHANGED <<fixed, configState, deployment, dep, spawned>>

\* len(cm.data or {}): data is absent or holds some entries
ConfigMaps == [name : {"settings"}, data : {None, Some({"k1", "k2"})}]

ConfigMapRow(cm) ==
    <<S(cm.name), I(IF cm.data = None THEN 0 ELSE Cardinality(Get(cm.data)))>>

CmdGetConfigmaps ==
    /\ pc = "call" /\ handler = "cmd_get_configmaps"
    /\ \/ \E r \in ApiReasons :
            ApiException("list_namespaced_config_map", None, r) /\ UNCHANGED stdout
       \/ \E cms \in SeqsUpTo(ConfigMaps, 1) :
            Listed("list_namespaced_config_map", cms,
                   "ConfigMaps in namespace: " \o Ns(args), <<"NAME", "DATA">>,
                   [i \in 1..Len(cms) |-> ConfigMapRow(cms[i])])
    /\ UNCHANGED <<fixed, configState, deployment, dep, spawned>>

-----------------------------------------------------------------------------
(* get nodes *)

Conditions == [type : {"Ready", "MemoryPressure"},
               status : {"True", "False", "Unknown"}]

ConditionLists == {None} \cup {Some(cs) : cs \in SeqsUpTo(Conditions, MaxConditions)}

\* a label key, cut where the code can cut it: an optional DNS prefix and
\* "/", then the name
NodeRole == <<"node-role.kubernetes.io", "/">>

LabelKeys == {NodeRole \o <<"master">>,
              NodeRole \o <<"worker">>,
              <<"x.">> \o NodeRole \o <<"edge">>,
              <<"kubernetes.io", "/", "hostname">>,
              <<"zone">>}

\* the keys of a dict are distinct and keep their order
LabelMaps ==
    {None} \cup {Some(ls) : ls \in {x \in SeqsUpTo(LabelKeys, MaxLabels) :
                                      \A i, j \in 1..Len(x) : x[i] = x[j] => i = j}}

Node(c, l) == [name |-> "node-1", conditions |-> c, labels |-> l,
               kubelet_version |-> "v1.30.0"]

\* every condition list with one label map, and every label map (the
\* absent one too) with one condition list
Nodes ==
    {Node(c, Some(<<NodeRole \o <<"master">>>>)) : c \in ConditionLists}
    \cup {Node(Some(<<[type |-> "Ready", status |-> "True"]>>), l) : l \in LabelMaps}

NodeLists == SeqsUpTo(Nodes, MaxNodes)

\* {c.type: c.status for c in (n.status.conditions or [])}: a later
\* condition of a type replaces an earlier one
CondsDict(n) ==
    LET cs == IF n.conditions = None THEN <<>> ELSE Get(n.conditions)
    IN  [t \in {cs[i].type : i \in 1..Len(cs)} |->
            cs[CHOOSE i \in 1..Len(cs) :
                  /\ cs[i].type = t
                  /\ \A j \in (i + 1)..Len(cs) : cs[j].type # t].status]

\* ready unless the Ready condition says "False"
NodeReadyUnlessFalse(n) ==
    IF "Ready" \in DOMAIN CondsDict(n) /\ CondsDict(n)["Ready"] # "False"
    THEN "True" ELSE "False"

\* "True" if conds.get("Ready") == "True" else "False"
NodeReady(n) ==
    IF "Ready" \in DOMAIN CondsDict(n) /\ CondsDict(n)["Ready"] = "True"
    THEN "True" ELSE "False"

\* "node-role.kubernetes.io/" in l
Contains(l, part) ==
    \E i \in 0..(Len(l) - Len(part)) : SubSeq(l, i + 1, i + Len(part)) = part

\* l.split("/")[-1]
SplitLast(l) ==
    LET cuts == {i \in 1..Len(l) : l[i] = "/"}
    IN  IF cuts = {} THEN Concat(l)
        ELSE Concat(SubSeq(l, (CHOOSE i \in cuts : \A j \in cuts : j <= i) + 1, Len(l)))

RECURSIVE SelectRoles(_)
\* [l.split("/")[-1] for l in labels if "node-role.kubernetes.io/" in l]
SelectRoles(ls) ==
    IF ls = <<>> THEN <<>>
    ELSE (IF Contains(ls[1], NodeRole) THEN <<SplitLast(ls[1])>> ELSE <<>>)
         \o SelectRoles(Tail(ls))

\* ",".join(roles) or "<none>"
RolesText(roles) == IF Join(",", roles) = "" THEN "<none>" ELSE Join(",", roles)

NodeRow(n) ==
    <<S(n.name), S(NodeReady(n)), S(RolesText(SelectRoles(Get(n.labels)))),
      S(n.kubelet_version)>>

\* iterating n.metadata.labels raises TypeError when the labels are None
NodesRaise(nodes) == \E i \in 1..Len(nodes) : nodes[i].labels = None

CmdGetNodes ==
    /\ pc = "call" /\ handler = "cmd_get_nodes"
    /\ \/ \E r \in ApiReasons :
            ApiException("list_node", None, r) /\ UNCHANGED stdout
       \/ \E nodes \in NodeLists :
            IF NodesRaise(nodes)
            THEN /\ calls' = Append(calls, Call("list_node", "ok", None, Some(nodes)))
                 /\ Uncaught("TypeError: 'NoneType' object is not iterable")
                 /\ UNCHANGED stdout
            ELSE Listed("list_node", nodes, "Nodes",
                        <<"NAME", "READY", "ROLES", "VERSION">>,
                        [i \in 1..Len(nodes) |-> NodeRow(nodes[i])])
    /\ UNCHANGED <<fixed, configState, deployment, dep, spawned>>

-----------------------------------------------------------------------------
(* cluster-info: five list calls, then the summary *)

\* the summary with a sixth list call
ClusterInfoOpsAndConfigMaps ==
    <<"list_namespace", "list_node", "list_namespaced_pod",
      "list_namespaced_deployment", "list_namespaced_service",
      "list_namespaced_config_map">>

ClusterInfoOps == <<"list_namespace", "list_node", "list_namespaced_pod",
                    "list_namespaced_deployment", "list_namespaced_service">>

\* len(...items) of each list
ItemCounts == {0, 3}

ClusterInfoRows(cs, ns) ==
    <<<<S("Namespaces"), I(Get(cs[1].returned))>>,
      <<S("Nodes"), I(Get(cs[2].returned))>>,
      <<S("Pods (" \o ns \o ")"), I(Get(cs[3].returned))>>,
      <<S("Deployments (" \o ns \o ")"), I(Get(cs[4].returned))>>,
      <<S("Services (" \o ns \o ")"), I(Get(cs[5].returned))>>>>

CmdClusterInfo ==
    /\ pc = "call" /\ handler = "cmd_cluster_info"
    /\ LET op == ClusterInfoOps[Len(calls) + 1] IN
       \/ \E r \in ApiReasons : ApiException(op, None, r) /\ UNCHANGED stdout
       \/ \E n \in ItemCounts :
            /\ calls' = Append(calls, Call(op, "ok", None, Some(n)))
            /\ IF Len(calls') = Len(ClusterInfoOps)
               THEN /\ stdout' = stdout \o <<Line("header", "Cluster Summary"),
                                            print_table(<<"Resource", "Count">>,
                                                ClusterInfoRows(calls', Ns(args)))>>
                    /\ Return
               ELSE UNCHANGED <<stdout, pc, exitCode>>
            /\ UNCHANGED stderr
    /\ UNCHANGED <<fixed, configState, deployment, dep, spawned>>

-----------------------------------------------------------------------------
(* get contexts, use-context: the kubeconfig, no remote API *)

\* ctx["context"].get("cluster", ""): the cluster may be missing
Contexts == [name : {"a", "b"}, cluster : {None, Some("c1")}, user : {Some("u1")}]

ContextLists == SeqsUpTo(Contexts, MaxContexts)

GetOr(o, default) == IF o = None THEN default ELSE Get(o)

\* the check mark of the CURRENT column (U+2714)
CheckMark == "(check mark)"

\* the whole entries compared, not their names
CurrentMarkerSameEntry(ctx, active) == IF ctx = active THEN CheckMark ELSE ""

\* CheckMark if ctx["name"] == active["name"] else ""
CurrentMarker(ctx, active) == IF ctx.name = active.name THEN CheckMark ELSE ""

ContextRow(ctx, active) ==
    <<S(CurrentMarker(ctx, active)), S(ctx.name), S(GetOr(ctx.cluster, "")),
      S(GetOr(ctx.user, ""))>>

CmdGetContexts ==
    /\ pc = "config" /\ handler = "cmd_get_contexts"
    /\ IF ~hasK8s
       THEN /\ stderr' = Append(stderr, Line("err", "kubernetes package not installed."))
            /\ Exit(1)
            /\ UNCHANGED <<stdout, listed>>
       ELSE \/ /\ stderr' = Append(stderr, Line("err", "Error: Invalid kube-config file."))
               /\ Return
               /\ UNCHANGED <<stdout, listed>>
            \/ \E contexts \in ContextLists, active \in Contexts :
               /\ stdout' = stdout \o
                    <<Line("header", "Contexts"),
                      print_table(<<"CURRENT", "NAME", "CLUSTER", "USER">>,
                          [i \in 1..Len(contexts) |-> ContextRow(contexts[i], active)])>>
               /\ listed' = Some([contexts |-> contexts, active |-> active])
               /\ Return
               /\ UNCHANGED stderr
    /\ UNCHANGED <<argv, hasK8s, args, handler, invoked, configState, calls,
                   deployment, dep, spawned>>

\* config.load_kube_config(context=args.name), any exception caught
CmdUseContext ==
    /\ pc = "config" /\ handler = "cmd_use_context"
    /\ IF ~hasK8s
       THEN /\ stderr' = Append(stderr, Line("err", "kubernetes package not installed."))
            /\ Exit(1)
            /\ UNCHANGED <<configState, stdout>>
       ELSE \E loads \in BOOLEAN :
              IF loads
              THEN /\ configState' = "loaded"
                   /\ stdout' = Append(stdout, Line("ok", "Switched to context '"
                                                          \o args.name \o "'"))
                   /\ Return
                   /\ UNCHANGED stderr
              ELSE /\ configState' = "failed"
                   /\ stderr' = Append(stderr, Line("err", "Error: Invalid kube-config file."))
                   /\ Return
                   /\ UNCHANGED stdout
    /\ UNCHANGED <<fixed, calls, deployment, dep, spawned>>

-----------------------------------------------------------------------------
(* exec, port-forward, apply, delete -f: kubectl as a child process *)

\* subprocess.run(cmd): the child ran, or kubectl is not on the path and
\* FileNotFoundError is raised
Run(cmd) ==
    /\ spawned' = Append(spawned, cmd)
    /\ stdout' = Append(stdout, Line("info", "Running: " \o Join(" ", cmd)))
    /\ \/ Return /\ UNCHANGED stderr
       \/ Uncaught("FileNotFoundError: 'kubectl'")

CmdExec ==
    /\ pc = "run" /\ handler = "cmd_exec"
    /\ \E container \in {None, Some("app")} :
         Run(<<"kubectl", "exec", "-it", args.name, "-n", Ns(args)>>
             \o (IF container = None THEN <<>> ELSE <<"-c", Get(container)>>)
             \o <<"--">> \o <<"/bin/sh">>)
    /\ UNCHANGED <<fixed, configState, calls, deployment, dep>>

\* a KeyboardInterrupt during the child is a normal stop
CmdPortForward ==
    /\ pc = "run" /\ handler = "cmd_port_forward"
    /\ LET cmd == <<"kubectl", "port-forward", args.name, "8080:80", "-n", Ns(args)>> IN
       \/ Run(cmd)
       \/ /\ spawned' = Append(spawned, cmd)
          /\ stdout' = stdout \o <<Line("info", "Running: " \o Join(" ", cmd)),
                                   Line("ok", "Port-forward stopped.")>>
          /\ Return
          /\ UNCHANGED stderr
    /\ UNCHANGED <<fixed, configState, calls, deployment, dep>>

CmdApply ==
    /\ pc = "run" /\ handler = "cmd_apply"
    /\ Run(<<"kubectl", "apply", "-f", "manifest.yaml">>)
    /\ UNCHANGED <<fixed, configState, calls, deployment, dep>>

CmdDeleteResource ==
    /\ pc = "run" /\ handler = "cmd_delete_resource"
    /\ \E force \in BOOLEAN :
         Run(<<"kubectl", "delete", "-f", "manifest.yaml">>
             \o (IF force THEN <<"--force">> ELSE <<>>))
    /\ UNCHANGED <<fixed, configState, calls, deployment, dep>>

-----------------------------------------------------------------------------

Next ==
    \/ ParseArgs
    \/ Main
    \/ LoadKubeConfig
    \/ CmdGetNamespaces
    \/ CmdGetPods
    \/ CmdDescribePod
    \/ CmdPodLogs
    \/ CmdDeletePod
    \/ CmdGetDeployments
    \/ CmdScaleDeploymentRead
    \/ CmdScaleDeploymentPatch
    \/ CmdRolloutRestartRead
    \/ CmdRolloutRestartPatch
    \/ ExternalWrite
    \/ CmdGetServices
    \/ CmdGetConfigmaps
    \/ CmdGetNodes
    \/ CmdClusterInfo
    \/ CmdGetContexts
    \/ CmdUseContext
    \/ CmdExec
    \/ CmdPortForward
    \/ CmdApply
    \/ CmdDeleteResource

Spec == Init /\ [][Next]_vars

-----------------------------------------------------------------------------
(* What the properties below read off a state *)

Done == pc = "done"

HasTable == \E i \in 1..Len(stdout) : stdout[i].kind = "table"

\* the rows of the table the handler printed
PrintedRows == stdout[CHOOSE i \in 1..Len(stdout) : stdout[i].kind = "table"].rows

HasErr == \E i \in 1..Len(stderr) : stderr[i].kind = "err"

HasHelp == \E i \in 1..Len(stdout) : stdout[i].kind = "help"

\* the list the handler's only list call returned
ListedItems == Get(calls[1].returned)

ListSucceeded(h) ==
    /\ handler = h
    /\ Len(calls) = 1
    /\ calls[1].outcome = "ok"

-----------------------------------------------------------------------------
(* C1 *)

\* the --replicas argument is an integer that is not negative
NonNegativeInteger(s) == IntParses(s) /\ IntValue(s) >= 0

ScaleWithBadReplicas ==
    /\ argv.command = "scale"
    /\ argv.sub = "deployment"
    /\ argv.replicas # None
    /\ ~NonNegativeInteger(Get(argv.replicas))

\* C1: a scale whose --replicas is negative or no integer is rejected before
\* any remote call: the deployment is neither read nor patched, and (the
\* stored deployment changing in a patch call only) stays as it was.
C1_BadReplicasRejectedBeforeRemoteCall ==
    ScaleWithBadReplicas =>
        /\ calls = <<>>
        /\ dep = None

-----------------------------------------------------------------------------
(* C2 *)

AnnotationsOf(d) == IF d.annotations = None THEN EmptyDict ELSE Get(d.annotations)

\* a value utcnow().isoformat() + "Z" can be
UtcTimestamps == {IsoFormat(dt) \o <<"Z">> : dt \in Datetimes}

\* the body differs from the object read in the restartedAt annotation only
OnlyRestartedAtDiffers(read, body) ==
    /\ \A f \in DOMAIN read \ {"annotations"} : body[f] = read[f]
    /\ body.annotations # None
    /\ DOMAIN AnnotationsOf(body) = DOMAIN AnnotationsOf(read) \cup {RestartedAt}
    /\ \A k \in DOMAIN AnnotationsOf(read) \ {RestartedAt} :
          AnnotationsOf(body)[k] = AnnotationsOf(read)[k]
    /\ AnnotationsOf(body)[RestartedAt] \in UtcTimestamps
    /\ Last(AnnotationsOf(body)[RestartedAt]) = "Z"

RestartSucceeded ==
    /\ handler = "cmd_rollout_restart"
    /\ Len(calls) = 2
    /\ calls[2].outcome = "ok"

\* C2: a successful rollout restart writes back the object it read with the
\* restartedAt pod-template annotation set to a UTC timestamp ending in Z and
\* nothing else changed: the replicas, the image and every other annotation
\* are as read, and that object is what the remote API then stores (under a
\* new resourceVersion).
C2_RestartChangesOnlyRestartedAt ==
    RestartSucceeded =>
        /\ calls[1].op = "read_namespaced_deployment"
        /\ calls[2].op = "patch_namespaced_deployment"
        /\ OnlyRestartedAtDiffers(Get(calls[1].returned), Get(calls[2].body))
        /\ deployment = Some(Stored(Get(calls[2].body)))

\* a restart of a deployment that had both annotations and two replicas
C2_Witness ==
    /\ RestartSucceeded
    /\ Done
    /\ Get(calls[1].returned).replicas = 2
    /\ DOMAIN AnnotationsOf(Get(calls[1].returned)) = AnnotationKeys
    /\ AnnotationsOf(Get(deployment))["owner"] = <<"team-a">>
    /\ AnnotationsOf(Get(deployment))[RestartedAt] # OldValue(RestartedAt)

-----------------------------------------------------------------------------
(* C3 *)

ResourceHandlers ==
    {"cmd_get_namespaces", "cmd_get_pods", "cmd_get_deployments",
     "cmd_get_services", "cmd_get_configmaps", "cmd_get_nodes",
     "cmd_describe_pod", "cmd_pod_logs", "cmd_delete_pod",
     "cmd_scale_deployment", "cmd_rollout_restart", "cmd_cluster_info"}

\* C3: when a remote call of a resource handler fails, it is the last call
\* of the invocation, the reason is the last line on standard error, nothing
\* but the configuration loader's line is on standard output, and the
\* process has ended with exit code 0.
C3_ApiErrorCaughtExitZero ==
    \A i \in 1..Len(calls) :
        calls[i].outcome # "ok" =>
            /\ handler \in ResourceHandlers
            /\ i = Len(calls)
            /\ Done
            /\ exitCode = Some(0)
            /\ Len(stderr) = 1
            /\ stderr[1] = Line("err", "API error: " \o calls[i].outcome)
            /\ Len(stdout) = 1
            /\ stdout[1] = Line("ok", LoadedMessage(args))

\* a scale whose read succeeded and whose patch of a valid body failed
C3_Witness ==
    /\ handler = "cmd_scale_deployment"
    /\ Len(calls) = 2
    /\ calls[1].outcome = "ok"
    /\ calls[2].outcome = "Forbidden"
    /\ Get(calls[2].body).replicas = 1
    /\ Done

-----------------------------------------------------------------------------
(* C4 *)

\* C4: a failed configuration load is reported, ends the process with exit
\* code 1 and leaves no remote call issued; a remote call is issued only
\* after a successful load.
C4_ConfigFailureExitsOne ==
    /\ configState = "failed" =>
          /\ Done
          /\ exitCode = Some(1)
          /\ HasErr
          /\ calls = <<>>
    /\ calls # <<>> => configState = "loaded"

-----------------------------------------------------------------------------
(* C5 *)

RECURSIVE SumOver(_, _)
\* the sum of f over the set idx of its indices
SumOver(f, idx) ==
    IF idx = {} THEN 0
    ELSE LET i == CHOOSE x \in idx : TRUE IN f[i] + SumOver(f, idx \ {i})

StatusList(p) == IF p.container_statuses = None THEN <<>> ELSE Get(p.container_statuses)

\* C5: the READY cell of every pod row is "K/N", K the statuses with
\* ready=true and N the containers of the spec, and the RESTARTS cell is the
\* sum of the restart counts of all statuses, 0 without statuses.
C5_PodReadyAndRestarts ==
    ListSucceeded("cmd_get_pods") =>
        /\ HasTable
        /\ Len(PrintedRows) = Len(ListedItems)
        /\ \A i \in 1..Len(ListedItems) :
             LET p == ListedItems[i]
                 K == Cardinality({j \in 1..Len(StatusList(p)) : StatusList(p)[j].ready})
                 N == Len(p.containers)
                 R == SumOver([j \in 1..Len(StatusList(p)) |-> StatusList(p)[j].restart_count],
                              1..Len(StatusList(p)))
             IN  /\ PrintedRows[i][2] = ToString(K) \o "/" \o ToString(N)
                 /\ PrintedRows[i][4] = ToString(R)
                 /\ (StatusList(p) = <<>> => PrintedRows[i][4] = "0")

\* a pod of two containers, one of them ready, each restarted once
C5_Witness ==
    /\ ListSucceeded("cmd_get_pods")
    /\ Len(ListedItems) = 1
    /\ ListedItems[1].container_statuses =
          Some(<<[ready |-> TRUE, restart_count |-> 1],
                 [ready |-> FALSE, restart_count |-> 1]>>)
    /\ PrintedRows[1][2] = "1/2"
    /\ PrintedRows[1][4] = "2"

-----------------------------------------------------------------------------
(* C6 *)

ConditionList(n) == IF n.conditions = None THEN <<>> ELSE Get(n.conditions)

\* the conditions hold a Ready condition of status "True"
SomeReadyTrue(cs) ==
    \E j \in 1..Len(cs) : cs[j].type = "Ready" /\ cs[j].status = "True"

\* the last Ready condition of the list has status "True"
LastReadyTrue(cs) ==
    \E j \in 1..Len(cs) :
        /\ cs[j].type = "Ready"
        /\ cs[j].status = "True"
        /\ \A k \in (j + 1)..Len(cs) : cs[k].type # "Ready"

\* C6 as stated: the READY cell of every node row is "True" when the
\* conditions hold a Ready condition of status "True", "False" otherwise,
\* for every condition list, one with several Ready conditions too.
C6_ReadyIffSomeReadyTrue ==
    (ListSucceeded("cmd_get_nodes") /\ HasTable) =>
        \A i \in 1..Len(ListedItems) :
            PrintedRows[i][2] =
                IF SomeReadyTrue(ConditionList(ListedItems[i])) THEN "True" ELSE "False"

\* C6 as amended: the READY cell of every node row that get nodes prints is
\* "True" when the last condition of type Ready in the list has status
\* exactly "True", and "False" when it has another status or there is none.
C6_ReadyIffLastReadyTrue ==
    (ListSucceeded("cmd_get_nodes") /\ HasTable) =>
        /\ Len(PrintedRows) = Len(ListedItems)
        /\ \A i \in 1..Len(ListedItems) :
             PrintedRows[i][2] =
                IF LastReadyTrue(ConditionList(ListedItems[i])) THEN "True" ELSE "False"

\* a printed node with two Ready conditions, "True" and then "False"
C6_Witness ==
    /\ ListSucceeded("cmd_get_nodes")
    /\ HasTable
    /\ Len(ListedItems) = 1
    /\ ListedItems[1].conditions =
          Some(<<[type |-> "Ready", status |-> "True"],
                 [type |-> "Ready", status |-> "False"]>>)
    /\ PrintedRows[1][2] = "False"

-----------------------------------------------------------------------------
(* C7 *)

ContextsListed == handler = "cmd_get_contexts" /\ listed # None

\* C7: get contexts prints one row for each context, in the order of the
\* configuration, and the CURRENT cell of a row is the check mark when the
\* row's name is the active context's name and empty otherwise.
C7_CurrentRowMarked ==
    ContextsListed =>
        /\ HasTable
        /\ Len(PrintedRows) = Len(Get(listed).contexts)
        /\ \A i \in 1..Len(PrintedRows) :
             /\ PrintedRows[i][2] = Get(listed).contexts[i].name
             /\ PrintedRows[i][1] =
                   IF Get(listed).contexts[i].name = Get(listed).active.name
                   THEN CheckMark ELSE ""

\* contexts a and b, b active: row b is marked and row a is not
C7_Witness ==
    /\ ContextsListed
    /\ Len(Get(listed).contexts) = 2
    /\ Get(listed).contexts[1].name = "a"
    /\ Get(listed).contexts[2].name = "b"
    /\ Get(listed).active.name = "b"
    /\ PrintedRows[1][1] = ""
    /\ PrintedRows[2][1] = CheckMark

-----------------------------------------------------------------------------
(* C8 *)

\* main ran on a combination that maps to no handler
NoHandlerCombination ==
    /\ Done
    /\ exitCode # Some(2)
    /\ args.command # NoToken
    /\ Target(args) = "None"

\* C8: the dispatcher calls at most one handler, and a combination that maps
\* to no handler gets an error on standard error and the help text, with
\* exit code 0.
C8_UnknownCombinationErrAndHelp ==
    /\ Len(invoked) <= 1
    /\ NoHandlerCombination =>
          /\ HasErr
          /\ HasHelp
          /\ exitCode = Some(0)

-----------------------------------------------------------------------------
(* C9 *)

\* the key starts with node-role.kubernetes.io/
StartsWithNodeRole(l) ==
    Len(l) >= Len(NodeRole) /\ SubSeq(l, 1, Len(NodeRole)) = NodeRole

\* the key without that prefix
StripNodeRole(l) == Concat(SubSeq(l, Len(NodeRole) + 1, Len(l)))

RECURSIVE StrippedRoles(_)
StrippedRoles(ls) ==
    IF ls = <<>> THEN <<>>
    ELSE (IF StartsWithNodeRole(ls[1]) THEN <<StripNodeRole(ls[1])>> ELSE <<>>)
         \o StrippedRoles(Tail(ls))

\* the ROLES cell the claim gives a label map
ExpectedRoles(labels) ==
    LET roles == IF labels = None THEN <<>> ELSE StrippedRoles(Get(labels))
    IN  IF roles = <<>> THEN "<none>" ELSE Join(",", roles)

\* C9: for every node get nodes is given, a node without a label map too,
\* the ROLES cell is the comma-joined list of the label keys that start with
\* node-role.kubernetes.io/, that prefix stripped, and "<none>" when no key
\* starts with it.
C9_RolesFromPrefixedLabels ==
    (ListSucceeded("cmd_get_nodes") /\ Done) =>
        /\ HasTable
        /\ \A i \in 1..Len(ListedItems) :
             PrintedRows[i][3] = ExpectedRoles(ListedItems[i].labels)

-----------------------------------------------------------------------------
(* C10 *)

\* the process runs until it ends, and then does nothing more
RunsToTheEnd == IF Done THEN ~ENABLED Next ELSE ENABLED Next

ExternalToolsTouchNothing ==
    handler \in ExternalHandlers =>
        /\ calls = <<>>
        /\ configState = "unloaded"
        /\ Len(spawned) <= 1
        /\ Done => Len(spawned) = 1

\* C10 as stated: no command issues more than two remote API calls; the
\* external-tool commands issue none, load no configuration and start one
\* child process; the process then ends.
C10_AtMostTwoRemoteCalls ==
    /\ Len(calls) <= 2
    /\ ExternalToolsTouchNothing
    /\ RunsToTheEnd

\* C10 as amended: cluster-info issues up to five remote API calls, every
\* other handler at most two; a resource handler whose configuration loaded
\* issues at least one, get contexts and use-context none; the
\* external-tool commands issue none, load no configuration and call
\* subprocess.run once; the process then ends.
C10_CallsPerHandler ==
    /\ Len(invoked) <= 1
    /\ Len(calls) <= IF handler = "cmd_cluster_info" THEN 5 ELSE 2
    /\ handler \notin ResourceHandlers => calls = <<>>
    /\ (Done /\ handler \in ResourceHandlers /\ configState = "loaded") => Len(calls) >= 1
    /\ handler \notin ExternalHandlers => spawned = <<>>
    /\ ExternalToolsTouchNothing
    /\ RunsToTheEnd

\* cluster-info after its five list calls
C10_Witness ==
    /\ handler = "cmd_cluster_info"
    /\ Len(calls) = 5
    /\ \A i \in 1..5 : calls[i].outcome = "ok" /\ calls[i].op = ClusterInfoOps[i]
    /\ HasTable
    /\ Done

-----------------------------------------------------------------------------
(* C11 *)

ReadModifyWriteHandlers == {"cmd_scale_deployment", "cmd_rollout_restart"}

\* the command has read the deployment and has not written yet, and the
\* stored deployment is no longer the object it read
ModifiedSinceRead ==
    /\ handler \in ReadModifyWriteHandlers
    /\ pc = "patch"
    /\ deployment # calls[1].returned

\* the body is the object read with only the field the command sets changed
OnlyCommandFieldDiffers(read, body) ==
    IF handler = "cmd_scale_deployment"
    THEN /\ \A f \in DOMAIN read \ {"replicas"} : body[f] = read[f]
         /\ body.replicas = Get(args.replicas)
    ELSE OnlyRestartedAtDiffers(read, body)

\* the step is the command's write: one more call, the patch, whose body is
\* the object read with the one field changed, and the process ends
WriteIssued ==
    /\ Len(calls') = 2
    /\ calls'[1] = calls[1]
    /\ calls'[2].op = "patch_namespaced_deployment"
    /\ calls'[2].body # None
    /\ OnlyCommandFieldDiffers(Get(calls[1].returned), Get(calls'[2].body))
    /\ pc' = "done"

\* the step prints the command's ok(...) line
SuccessReported == Len(stdout') = Len(stdout) + 1 /\ Last(stdout').kind = "ok"

\* the stored deployment is the body of the patch, whatever resourceVersion
\* it is stored under
BodyStored ==
    /\ deployment # None
    /\ \A f \in DOMAIN Get(calls[2].body) \ {"resourceVersion"} :
          Get(deployment)[f] = Get(calls[2].body)[f]

=============================================================================
